---- MODULE Spec2Model ----
(***************************************************************************)
(* A model of server-map.py: the naming-scheme matcher, the node classes   *)
(* (TreeElement and its four subclasses) with their shallow equality and   *)
(* merge, the registration loop of main (Step 2), the visibility collapse  *)
(* (getInputs / getOutputs) and the edge classifier of Step 4.             *)
(*                                                                         *)
(* Strings are sequences of tokens (<<"API", "_CONF">> is "API_CONF"), so  *)
(* that re.sub and re.search are computed, not assumed.  Objects live in   *)
(* `heap`, a sequence of records; an object's identity is its index.       *)
(***************************************************************************)
EXTENDS Integers, Sequences, FiniteSets, TLC

VARIABLES
    data,           \* main: the 'data' section of the environment YAML, in file order
    gi,             \* main: index into confs of the group being processed
    si,             \* main: index of the next server of that group
    heap,           \* every TreeElement constructed so far
    nodes,          \* main: the dict `nodes`, in insertion order
    currentServer,  \* main: the local variable of that name
    status,         \* where the run is
    last,           \* what the latest step did
    collapsed,      \* the latest results of getInputs and getOutputs
    edges,          \* main: the edges added to G, with their colours
    value,          \* the environment value line 36 searches
    buildNum        \* what line 36 produced

vars == <<data, gi, si, heap, nodes, currentServer, status, last, collapsed, edges, value,
          buildNum>>

----------------------------------------------------------------------------
(* re.search and re.sub over token sequences *)

\* Whether pattern pat (a token sequence) starts at position i of s.
MatchAt(pat, s, i) ==
    /\ i + Len(pat) - 1 <= Len(s)
    /\ \A j \in 1..Len(pat) : s[i + j - 1] = pat[j]

\* re.search(pat, s) for a literal pattern: pat occurs somewhere in s.
ReSearch(pat, s) ==
    \E i \in 1..(Len(s) + 1) : MatchAt(pat, s, i)

RECURSIVE ReSubFrom(_, _, _, _)
ReSubFrom(pat, repl, s, i) ==
    IF i > Len(s) THEN <<>>
    ELSE IF Len(pat) > 0 /\ MatchAt(pat, s, i)
         THEN repl \o ReSubFrom(pat, repl, s, i + Len(pat))
         ELSE <<s[i]>> \o ReSubFrom(pat, repl, s, i + 1)

\* re.sub(pat, repl, s) for a literal pattern: every non-overlapping occurrence,
\* leftmost first, is replaced.
ReSub(pat, repl, s) == ReSubFrom(pat, repl, s, 1)

\* re.sub of an alternation of single tokens by the empty string.
ReSubAny(toks, s) == SelectSeq(s, LAMBDA t : t \notin toks)

----------------------------------------------------------------------------
(* NamingScheme *)

environment_keys ==
    << <<"API", "_PKG">>, <<"STREAM", "_PKG">>, <<"ALT_", "STREAM", "_PKG">> >>

formats == << <<"_PKG">>, <<"_SVC", "_PKG">> >>

\* NamingScheme.mutations: dict(zip(formats, mutations)).
mutations(f) ==
    IF f = <<"_PKG">> THEN <<"_CONF">> ELSE <<"_UNPACKER", "_CONF">>

Range(s) == {s[i] : i \in 1..Len(s)}

\* dict.update({k: ...}): a key already present keeps its place.
DictAdd(d, k) == IF k \in Range(d) THEN d ELSE Append(d, k)

\* The inner loop of matchKeys: every key of source that mutKey matches.
RECURSIVE MatchInto(_, _, _, _)
MatchInto(group, mutKey, source, j) ==
    IF j > Len(source) THEN group
    ELSE MatchInto(IF ReSearch(mutKey, source[j].key)
                   THEN DictAdd(group, source[j].key) ELSE group,
                   mutKey, source, j + 1)

RECURSIVE MatchFormats(_, _, _, _)
MatchFormats(group, key, source, fi) ==
    IF fi > Len(formats) THEN group
    ELSE MatchFormats(
            MatchInto(group, ReSub(formats[fi], mutations(formats[fi]), key), source, 1),
            key, source, fi + 1)

\* matchKeys(source, keys): one group per requested key, each the ordered key
\* list of the dict matchKeys builds (the values are looked up in source).
matchKeys(source, keys) ==
    [i \in 1..Len(keys) |-> MatchFormats(<<keys[i]>>, keys[i], source, 1)]

\* source[key]'s file: the parsed document of the last supplied path that
\* contains the value's final path segment, as a set of at most one document.
FileOf(source, key) ==
    LET i == CHOOSE j \in 1..Len(source) : source[j].key = key
    IN  source[i].file

----------------------------------------------------------------------------
(* Configuration documents *)

GroupKeys == <<"packed", "unpacked", "agents_unpacked", "updates">>

NoTopics == [g \in Range(GroupKeys) |-> <<>>]

\* A parsed HOCON document: the top-level fields it has, and their contents
\* (an absent field's content is empty).
Doc(keys, logstreams, collection, apiEndpoint, topic) ==
    [keys |-> keys, logstreams |-> logstreams, collection |-> collection,
     apiEndpoint |-> apiEndpoint, topic |-> topic]

\* The {} every neighbour node is constructed with.
EmptySource == Doc({}, <<>>, <<>>, <<>>, NoTopics)

----------------------------------------------------------------------------
(* TreeElement and its subclasses *)

\* isinstance(x, c) for x of class cls: every subclass derives from TreeElement.
IsInstance(cls, c) == cls = c \/ c = "TreeElement"

\* The nickname each constructor sets.
Nickname(cls, name) ==
    CASE cls = "MongoCollection" -> ReSubAny({"prefix.", "\""}, name)
      [] cls = "KafkaTopic"      -> ReSub(<<"alt-prefix-">>, <<>>, name)
      [] OTHER                   -> name

\* TreeElement.__init__ (and the subclasses' own fields).
NewElement(cls, name, source, isVisible) ==
    [cls |-> cls, name |-> name, nickname |-> Nickname(cls, name), source |-> source,
     isVisible |-> isVisible, inputs |-> <<>>, outputs |-> <<>>, groups |-> <<>>,
     outputGroups |-> {}]

AppendInput(h, a, b) == [h EXCEPT ![a].inputs = Append(@, b)]
AppendOutput(h, a, b) == [h EXCEPT ![a].outputs = Append(@, b)]

\* ApiElement.populateIO, the logstreams loop: one KafkaTopic output per stream.
RECURSIVE ApiStreams(_, _, _, _)
ApiStreams(h, self, streams, i) ==
    IF i > Len(streams) THEN h
    ELSE LET t  == Len(h) + 1
             h1 == Append(h, NewElement("KafkaTopic", streams[i], EmptySource, TRUE))
         IN  ApiStreams(AppendInput(AppendOutput(h1, self, t), t, self), self, streams, i + 1)

\* ApiElement.populateIO, the collection loop: one MongoCollection input per record type.
RECURSIVE ApiCollections(_, _, _, _)
ApiCollections(h, self, recs, i) ==
    IF i > Len(recs) THEN h
    ELSE LET c  == Len(h) + 1
             h1 == Append(h, NewElement("MongoCollection", recs[i], EmptySource, TRUE))
         IN  ApiCollections(AppendOutput(AppendInput(h1, self, c), c, self), self, recs, i + 1)

\* ApiElement(name, data, buildNum): the heap with the server (at Len(h) + 1)
\* and the neighbours populateIO creates.
ApiElement(h, name, source) ==
    LET self == Len(h) + 1
        h0 == Append(h, NewElement("ApiElement", name, source, TRUE))
        h1 == IF "logstreams" \in source.keys
              THEN ApiStreams(h0, self, source.logstreams, 1) ELSE h0
    IN  IF "persistence" \in source.keys /\ "persistence.collection" \in source.keys
        THEN ApiCollections(h1, self, source.collection, 1) ELSE h1

StreamKeys == <<"apiEndpoint">> \o GroupKeys

\* KafkaTopic.streamInput(other, key).
streamInput(h, self, other, key) ==
    [h EXCEPT ![self].outputs = Append(@, other),
              ![self].outputGroups =
                  {p \in @ : p[1] # h[other].nickname} \cup {<<h[other].nickname, key>>}]

\* StreamElement.populateIO: the loop over StreamElement.keys.
RECURSIVE StreamPopulate(_, _, _)
StreamPopulate(h, self, ki) ==
    IF ki > Len(StreamKeys) THEN h
    ELSE LET key == StreamKeys[ki]
             n   == Len(h) + 1
         IN  IF key \notin h[self].source.keys THEN StreamPopulate(h, self, ki + 1)
             ELSE IF key = "apiEndpoint"
             THEN LET h1 == Append(h, NewElement("TreeElement",
                                                 h[self].source.apiEndpoint, EmptySource, TRUE))
                  IN  StreamPopulate(AppendInput(AppendOutput(h1, self, n), n, self),
                                     self, ki + 1)
             ELSE LET h1 == Append([h EXCEPT ![self].groups = Append(@, key)],
                                   NewElement("KafkaTopic", h[self].source.topic[key],
                                              EmptySource, TRUE))
                  IN  StreamPopulate(streamInput(AppendInput(h1, self, n), n, self, key),
                                     self, ki + 1)

\* StreamElement(name, data, buildNum).
StreamElement(h, name, source) ==
    StreamPopulate(Append(h, NewElement("StreamElement", name, source, TRUE)),
                   Len(h) + 1, 1)

\* serverConstructor's choice: the class it constructs, or "None" (after the
\* warning) when the document is of unknown type.
ServerKind(doc) ==
    IF "logstreams" \in doc.keys THEN "ApiElement"
    ELSE IF "packed" \in doc.keys THEN "StreamElement"
    ELSE "None"

\* serverConstructor(name, filename, buildNum) when it returns a node: the heap
\* after the construction; the new server is at Len(h) + 1.
serverConstructor(h, server, doc) ==
    LET name == ReSub(<<"_CONF">>, <<>>, server)
    IN  IF ServerKind(doc) = "ApiElement" THEN ApiElement(h, name, doc)
        ELSE StreamElement(h, name, doc)

----------------------------------------------------------------------------
(* Equality, merge, visibility collapse, edge colours *)

\* list.sort() sorts in place and returns None.
ListSort(l) == "None"

\* TreeElement.__eq__(self, other), on the heap h.
DunderEq(h, self, other) ==
    IF IsInstance(h[other].cls, h[self].cls)
    THEN IF /\ h[self].name = h[other].name
            /\ h[self].source = h[other].source
            /\ h[self].isVisible = h[other].isVisible
            /\ Len(h[self].inputs) = Len(h[other].inputs)
            /\ Len(h[self].outputs) = Len(h[other].outputs)
         THEN LET sInputs  == [i \in 1..Len(h[self].inputs)  |-> h[h[self].inputs[i]].name]
                  oInputs  == [i \in 1..Len(h[self].inputs)  |-> h[h[other].inputs[i]].name]
                  sOutputs == [i \in 1..Len(h[self].outputs) |-> h[h[self].outputs[i]].name]
                  oOutputs == [i \in 1..Len(h[self].outputs) |-> h[h[other].outputs[i]].name]
              IN  ListSort(sInputs) = ListSort(oInputs) /\ ListSort(sOutputs) = ListSort(oOutputs)
         ELSE FALSE
    ELSE FALSE

\* v == w as Python evaluates it: when type(w) is a proper subclass of type(v),
\* w's __eq__ is tried first, and __eq__ never answers NotImplemented.
PyEq(h, v, w) ==
    IF h[v].cls # h[w].cls /\ IsInstance(h[w].cls, h[v].cls)
    THEN DunderEq(h, w, v)
    ELSE DunderEq(h, v, w)

\* el in lst: identity first, then ==.
Contains(h, lst, el) ==
    \E i \in 1..Len(lst) : lst[i] = el \/ PyEq(h, lst[i], el)

\* merge's first loop, reading other.inputs as the loop reaches each position.
RECURSIVE MergeInputs(_, _, _, _)
MergeInputs(h, self, other, i) ==
    IF i > Len(h[other].inputs) THEN h
    ELSE LET element == h[other].inputs[i]
         IN  MergeInputs(IF ~Contains(h, h[self].inputs, element)
                         THEN AppendInput(h, self, element) ELSE h,
                         self, other, i + 1)

RECURSIVE MergeOutputs(_, _, _, _)
MergeOutputs(h, self, other, i) ==
    IF i > Len(h[other].outputs) THEN h
    ELSE LET element == h[other].outputs[i]
         IN  MergeOutputs(IF ~Contains(h, h[self].outputs, element)
                          THEN AppendOutput(h, self, element) ELSE h,
                          self, other, i + 1)

\* TreeElement.merge(self, other): the heap afterwards (it returns self).
merge(h, self, other) ==
    MergeOutputs(MergeInputs(h, self, other, 1), self, other, 1)

\* A getInputs without the collapse: the inputs from position i on as they are
\* listed, invisible ones included.
getInputsListed(h, self, i) == SubSeq(h[self].inputs, i, Len(h[self].inputs))

\* TreeElement.getInputs: the loop from position i on.
RECURSIVE getInputsFrom(_, _, _)
getInputsFrom(h, self, i) ==
    IF i > Len(h[self].inputs) THEN <<>>
    ELSE LET n == h[self].inputs[i]
         IN  (IF h[n].isVisible THEN <<n>> ELSE getInputsFrom(h, n, 1))
             \o getInputsFrom(h, self, i + 1)

getInputs(h, self) == getInputsFrom(h, self, 1)

RECURSIVE getOutputsFrom(_, _, _)
getOutputsFrom(h, self, i) ==
    IF i > Len(h[self].outputs) THEN <<>>
    ELSE LET n == h[self].outputs[i]
         IN  (IF h[n].isVisible THEN <<n>> ELSE getOutputsFrom(h, n, 1))
             \o getOutputsFrom(h, self, i + 1)

getOutputs(h, self) == getOutputsFrom(h, self, 1)

\* StreamElement.colorMap.
colorMap(key) ==
    CASE key = "apiEndpoint"     -> "black"
      [] key = "packed"          -> "khaki"
      [] key = "unpacked"        -> "yellow"
      [] key = "agents_unpacked" -> "cadetblue"
      [] key = "updates"         -> "darkcyan"

\* StreamElement.colorHandler(self, other): a colour, or "IndexError" when
\* self.groups has no entry at the position of the input found.
colorHandler(h, self, other) ==
    LET hits == {i \in 1..Len(h[self].inputs) : PyEq(h, h[self].inputs[i], other)}
    IN  IF hits = {} THEN "black"
        ELSE LET i == CHOOSE j \in hits : \A k \in hits : j <= k
             IN  IF i <= Len(h[self].groups) THEN colorMap(h[self].groups[i])
                 ELSE "IndexError"

\* The colour main gives the edge from input i to node: hasattr(node,
\* 'colorHandler') holds of StreamElement alone.
EdgeColor(h, node, i) ==
    IF h[node].cls = "StreamElement" THEN colorHandler(h, node, i) ELSE "black"

----------------------------------------------------------------------------
(* The dict `nodes` of main: a sequence of [key, val] in insertion order *)

HasKey(reg, k) == \E i \in 1..Len(reg) : reg[i].key = k

Lookup(reg, k) == reg[CHOOSE i \in 1..Len(reg) : reg[i].key = k].val

\* nodes.update({k : v}): a present key keeps its place and takes the new value.
DictUpdate(reg, k, v) ==
    IF HasKey(reg, k)
    THEN [i \in 1..Len(reg) |-> IF reg[i].key = k THEN [key |-> k, val |-> v] ELSE reg[i]]
    ELSE Append(reg, [key |-> k, val |-> v])

\* Lines 43-47: each visible neighbour is merged into the entry of its nickname,
\* or becomes that entry.  st is [heap, nodes].
RECURSIVE RegisterNeighbours(_, _, _)
RegisterNeighbours(st, ns, i) ==
    IF i > Len(ns) THEN st
    ELSE LET n    == ns[i]
             nick == st.heap[n].nickname
         IN  RegisterNeighbours(
                 IF HasKey(st.nodes, nick)
                 THEN [st EXCEPT !.heap = merge(st.heap, Lookup(st.nodes, nick), n)]
                 ELSE [st EXCEPT !.nodes = DictUpdate(st.nodes, nick, n)],
                 ns, i + 1)

\* Lines 42-47 for currentServer = cs.
Register(h, reg, cs) ==
    RegisterNeighbours([heap |-> h, nodes |-> DictUpdate(reg, h[cs].nickname, cs)],
                       getInputs(h, cs) \o getOutputs(h, cs), 1)

----------------------------------------------------------------------------
(* main, Step 2 *)

confs == matchKeys(data, environment_keys)

\* list(config)[1:] of the group being processed.
Servers == IF gi <= Len(confs) THEN Tail(confs[gi]) ELSE <<>>

InLoop == status = "running" /\ gi <= Len(confs) /\ si <= Len(Servers)

Unbound   == [tag |-> "unbound", id |-> 0]
NoneValue == [tag |-> "None", id |-> 0]
Object(n) == [tag |-> "object", id |-> n]

passVars == <<data, collapsed, edges, value, buildNum>>

\* Lines 38-47 when a supplied path matches and its document is of a known
\* type: the server is constructed and registered with its neighbours.
ProcessConstructed ==
    /\ InLoop
    /\ \E doc \in FileOf(data, Servers[si]) :
          /\ ServerKind(doc) # "None"
          /\ LET cs == Len(heap) + 1
                 st == Register(serverConstructor(heap, Servers[si], doc), nodes, cs)
             IN  /\ heap' = st.heap
                 /\ nodes' = st.nodes
                 /\ currentServer' = Object(cs)
    /\ si' = si + 1
    /\ last' = "constructed"
    /\ UNCHANGED <<gi, status>>
    /\ UNCHANGED passVars

\* Lines 38-41 when the matching document is of unknown type: serverConstructor
\* warns and returns None, which is no TreeElement.
ProcessUnknown ==
    /\ InLoop
    /\ \E doc \in FileOf(data, Servers[si]) : ServerKind(doc) = "None"
    /\ currentServer' = NoneValue
    /\ si' = si + 1
    /\ last' = "unknown"
    /\ UNCHANGED <<gi, status, heap, nodes>>
    /\ UNCHANGED passVars

\* Lines 38-47 when no supplied path matches and currentServer still holds the
\* server of an earlier iteration: it is registered again.
ProcessStale ==
    /\ InLoop
    /\ FileOf(data, Servers[si]) = {}
    /\ currentServer.tag = "object"
    /\ LET st == Register(heap, nodes, currentServer.id)
       IN  heap' = st.heap /\ nodes' = st.nodes
    /\ si' = si + 1
    /\ last' = "stale"
    /\ UNCHANGED <<gi, status, currentServer>>
    /\ UNCHANGED passVars

\* The same when currentServer holds None: line 41 skips the registration.
ProcessStaleNone ==
    /\ InLoop
    /\ FileOf(data, Servers[si]) = {}
    /\ currentServer.tag = "None"
    /\ si' = si + 1
    /\ last' = "skipped"
    /\ UNCHANGED <<gi, status, currentServer, heap, nodes>>
    /\ UNCHANGED passVars

\* The same when no server was constructed before: line 41 reads an unbound
\* local and the run ends with a NameError.
ProcessUnbound ==
    /\ InLoop
    /\ FileOf(data, Servers[si]) = {}
    /\ currentServer.tag = "unbound"
    /\ status' = "NameError"
    /\ last' = "NameError"
    /\ UNCHANGED <<gi, si, currentServer, heap, nodes>>
    /\ UNCHANGED passVars

\* Line 35: the next group of confs (its build number in hand).
NextGroup ==
    /\ status = "running"
    /\ gi <= Len(confs)
    /\ si > Len(Servers)
    /\ gi' = gi + 1
    /\ si' = 1
    /\ last' = "group"
    /\ UNCHANGED <<status, currentServer, heap, nodes>>
    /\ UNCHANGED passVars

----------------------------------------------------------------------------
(* main, Step 4 *)

\* The inner loops of lines 57-64 for one node: an edge per visible input.
EdgesOfNode(h, node) ==
    LET ins == getInputs(h, node)
    IN  [k \in 1..Len(ins) |->
            <<h[ins[k]].nickname, h[node].nickname, EdgeColor(h, node, ins[k])>>]

\* Every G.add_edge call of the loop over nodes.values(), in order.
RECURSIVE EdgeCalls(_, _, _)
EdgeCalls(h, reg, j) ==
    IF j > Len(reg) THEN <<>>
    ELSE EdgesOfNode(h, reg[j].val) \o EdgeCalls(h, reg, j + 1)

\* The calls made before colorHandler first raises.
Completed(calls) ==
    LET bad == {k \in 1..Len(calls) : calls[k][3] = "IndexError"}
    IN  IF bad = {} THEN calls
        ELSE SubSeq(calls, 1, (CHOOSE k \in bad : \A m \in bad : k <= m) - 1)

\* G after those calls: adding an edge again replaces its colour.
GraphOf(calls) ==
    {calls[k] : k \in {k \in 1..Len(calls) :
        \A m \in (k + 1)..Len(calls) :
            ~(calls[m][1] = calls[k][1] /\ calls[m][2] = calls[k][2])}}

\* nx.relabel_nodes(G, {'': '[empty]'}).
Relabel(nick) == IF nick = <<>> THEN <<"[empty]">> ELSE nick

\* Lines 56-67: the graph is built from every registered node's visible inputs;
\* a colorHandler that raises ends the run.
DeriveEdges ==
    /\ status = "running"
    /\ gi > Len(confs)
    /\ LET calls == EdgeCalls(heap, nodes, 1)
           done  == Completed(calls)
       IN  IF Len(done) < Len(calls)
           THEN status' = "IndexError" /\ edges' = GraphOf(done)
           ELSE /\ status' = "done"
                /\ edges' = {<<Relabel(e[1]), Relabel(e[2]), e[3]>> : e \in GraphOf(done)}
    /\ last' = "edges"
    /\ UNCHANGED <<data, gi, si, heap, nodes, currentServer, collapsed, value, buildNum>>

----------------------------------------------------------------------------
(* main, line 36 *)

\* The positions where v\d+$ matches s: a "v", then digits up to the end of s
\* or up to a final newline.
Digits == {"0", "1"}

VersionStarts(s) ==
    {i \in 1..Len(s) :
        /\ s[i] = "v"
        /\ \E e \in {Len(s), Len(s) - 1} :
              /\ e > i
              /\ e = Len(s) \/ s[Len(s)] = "\n"
              /\ \A j \in (i + 1)..e : s[j] \in Digits}

\* The end of the match that starts at i.
VersionEnd(s, i) ==
    IF \A j \in (i + 1)..Len(s) : s[j] \in Digits THEN Len(s) ELSE Len(s) - 1

\* The number of capturing groups of r'v\d+$', and the group line 36 asks for.
PatternGroups == 0
RequestedGroup == 1

Pending == [tag |-> "pending", token |-> <<>>]

\* re.search(r'v\d+$', s).group(RequestedGroup): the text of the group, or
\* the exception raised.
SearchGroup(s) ==
    IF VersionStarts(s) = {} THEN [tag |-> "AttributeError", token |-> <<>>]
    ELSE IF RequestedGroup > PatternGroups THEN [tag |-> "IndexError", token |-> <<>>]
    ELSE LET i == CHOOSE j \in VersionStarts(s) : \A k \in VersionStarts(s) : j <= k
         IN  [tag |-> "ok", token |-> SubSeq(s, i, VersionEnd(s, i))]

\* Line 36 for the group's requested key, whose value is `value`.
ExtractBuildNum ==
    /\ status = "running"
    /\ buildNum = Pending
    /\ buildNum' = SearchGroup(value)
    /\ status' = IF buildNum'.tag = "ok" THEN "running" ELSE buildNum'.tag
    /\ last' = "buildNum"
    /\ UNCHANGED <<data, gi, si, heap, nodes, currentServer, collapsed, edges, value>>

----------------------------------------------------------------------------
(* Bounds *)

\* The most conf keys the environment's data section holds.
MaxConfKeys == 2
\* The longest environment value line 36 is given.
MaxValueLen == 4
\* The most wirings made by hand between generic elements.
MaxWires == 3

----------------------------------------------------------------------------
(* Generic elements wired by hand: TreeElement(name, {}, isVisible) *)

ElementNames == <<"c", "i", "p", "q">>

Elements == 1..Len(ElementNames)

WireCount(h) ==
    LET RECURSIVE Sum(_)
        Sum(k) == IF k = 0 THEN 0 ELSE Len(h[k].inputs) + Sum(k - 1)
    IN  Sum(Len(h))

\* The invisible elements an invisible chain of inputs leads to from the set S.
RECURSIVE InvisibleClosure(_, _)
InvisibleClosure(h, S) ==
    LET more == {m \in 1..Len(h) : ~h[m].isVisible /\ \E n \in S : m \in Range(h[n].inputs)}
    IN  IF more \subseteq S THEN S ELSE InvisibleClosure(h, S \cup more)

\* No invisible element reaches itself through invisible inputs only.
ChainsFinite(h) ==
    \A n \in 1..Len(h) :
        ~h[n].isVisible =>
            n \notin InvisibleClosure(h,
                {m \in 1..Len(h) : ~h[m].isVisible /\ m \in Range(h[n].inputs)})

\* No call of getInputs or getOutputs made since the last wiring.
NoCollapse == [node |-> 0, inputs |-> <<>>, outputs |-> <<>>]

\* The wiring every populateIO does: a.inputs.append(b), b.outputs.append(a).
Wire(a, b) ==
    /\ status = "wiring"
    /\ WireCount(heap) < MaxWires
    /\ LET h == AppendOutput(AppendInput(heap, a, b), b, a)
       IN  ChainsFinite(h) /\ heap' = h
    /\ collapsed' = NoCollapse
    /\ last' = "wired"
    /\ UNCHANGED <<data, gi, si, nodes, currentServer, status, edges, value, buildNum>>

\* node.getInputs() and node.getOutputs().
Collapse(n) ==
    /\ status = "wiring"
    /\ collapsed' = [node |-> n, inputs |-> getInputs(heap, n),
                     outputs |-> getOutputs(heap, n)]
    /\ last' = "collapsed"
    /\ UNCHANGED <<data, gi, si, heap, nodes, currentServer, status, edges, value, buildNum>>

----------------------------------------------------------------------------
(* The inputs of a run *)

API == <<"API">>
STREAM == <<"STREAM">>
ALT_STREAM == <<"ALT_", "STREAM">>

\* Topic and collection names as the documents spell them.
TopicT == <<"T">>
TopicAltT == <<"alt-prefix-", "T">>
CollectionC == <<"prefix.", "C">>

ApiDoc(streams, recs) ==
    Doc({"logstreams"} \cup (IF recs = <<>> THEN {} ELSE {"persistence", "persistence.collection"}),
        streams, recs, <<>>, NoTopics)

PersistenceDoc(recs) ==
    Doc({"persistence", "persistence.collection"}, <<>>, recs, <<>>, NoTopics)

\* A stream document with the group fields of topics (a function from some of
\* GroupKeys to names) and the endpoints of endpoint (a set of at most one name).
StreamDoc(topics, endpoint) ==
    Doc((DOMAIN topics) \cup (IF endpoint = {} THEN {} ELSE {"apiEndpoint"}),
        <<>>, <<>>,
        IF endpoint = {} THEN <<>> ELSE CHOOSE e \in endpoint : TRUE,
        [g \in Range(GroupKeys) |-> IF g \in DOMAIN topics THEN topics[g] ELSE <<>>])

OtherDoc == Doc({"other"}, <<>>, <<>>, <<>>, NoTopics)

\* The documents the supplied files parse to.
Docs ==
    { ApiDoc(<<TopicT>>, <<CollectionC>>),
      ApiDoc(<<ALT_STREAM>>, <<>>),
      PersistenceDoc(<<CollectionC>>),
      StreamDoc([g \in {"packed"} |-> TopicAltT], {}),
      StreamDoc([g \in {"packed"} |-> TopicT], {ALT_STREAM}),
      StreamDoc([g \in {"packed", "unpacked"} |->
                    IF g = "packed" THEN TopicT ELSE TopicAltT], {API}),
      OtherDoc }

\* What a key's value leads to: no supplied file, or a file's document.
Files == {{}} \cup {{d} : d \in Docs}

ConfKeys ==
    { <<"API", "_CONF">>, <<"STREAM", "_CONF">>, <<"ALT_", "STREAM", "_CONF">>,
      <<"API", "_CONF", "_CONF">> }

\* The requested keys hold package references, which name no supplied file.
PkgEntries == [i \in 1..Len(environment_keys) |-> [key |-> environment_keys[i], file |-> {}]]

\* The conf entries of a data section: distinct keys, each with its file.
ConfEntries ==
    UNION {{e \in [1..n -> [key : ConfKeys, file : Files]] :
              \A i, j \in 1..n : i # j => e[i].key # e[j].key} : n \in 0..MaxConfKeys}

----------------------------------------------------------------------------
(* Specifications *)

\* Step 2 and Step 4 of main, entered with the build number of every group.
InitPass ==
    /\ data \in {PkgEntries \o e : e \in ConfEntries}
    /\ gi = 1
    /\ si = 1
    /\ heap = <<>>
    /\ nodes = <<>>
    /\ currentServer = Unbound
    /\ status = "running"
    /\ last = "init"
    /\ collapsed = NoCollapse
    /\ edges = {}
    /\ value = <<>>
    /\ buildNum = [tag |-> "ok", token |-> <<"v", "1">>]

NextPass ==
    \/ ProcessConstructed
    \/ ProcessUnknown
    \/ ProcessStale
    \/ ProcessStaleNone
    \/ ProcessUnbound
    \/ NextGroup
    \/ DeriveEdges

SpecPass == InitPass /\ [][NextPass]_vars

\* Line 36 of main on the value of a requested key.
Chars == {"v", "x", "\n"} \cup Digits

InitBuild ==
    /\ value \in UNION {[1..n -> Chars] : n \in 0..MaxValueLen}
    /\ buildNum = Pending
    /\ data = PkgEntries
    /\ gi = 1
    /\ si = 1
    /\ heap = <<>>
    /\ nodes = <<>>
    /\ currentServer = Unbound
    /\ status = "running"
    /\ last = "init"
    /\ collapsed = NoCollapse
    /\ edges = {}

NextBuild == ExtractBuildNum

SpecBuild == InitBuild /\ [][NextBuild]_vars

\* Generic elements, some of them invisible, wired by hand and collapsed.
InitWire ==
    /\ heap \in {[k \in Elements |->
                    NewElement("TreeElement", <<ElementNames[k]>>, EmptySource, vis[k])] :
                 vis \in [Elements -> BOOLEAN]}
    /\ status = "wiring"
    /\ last = "init"
    /\ collapsed = NoCollapse
    /\ data = PkgEntries
    /\ gi = 1
    /\ si = 1
    /\ nodes = <<>>
    /\ currentServer = Unbound
    /\ edges = {}
    /\ value = <<>>
    /\ buildNum = Pending

NextWire ==
    \/ \E a, b \in Elements : Wire(a, b)
    \/ \E n \in Elements : Collapse(n)

SpecWire == InitWire /\ [][NextWire]_vars

Spec == SpecPass

----------------------------------------------------------------------------
(* Properties *)

Objects == 1..Len(heap)

\* The objects the dict `nodes` holds.
Registered == {nodes[i].val : i \in 1..Len(nodes)}

\* C1: the registry entry of a nickname is the first instance registered under
\* it: no step replaces the value of a key the registry already holds.
RegistryKeepsFirstInstance ==
    [][\A i \in 1..Len(nodes) : Len(nodes') >= i /\ nodes'[i] = nodes[i]]_vars

NameSet(h, lst) == {h[lst[i]].name : i \in 1..Len(lst)}

\* The equality the documentation states: same variant, name, source and
\* visible flag, equal counts and equal sets of neighbour names.
StatedEq(h, a, b) ==
    /\ h[a].cls = h[b].cls
    /\ h[a].name = h[b].name
    /\ h[a].source = h[b].source
    /\ h[a].isVisible = h[b].isVisible
    /\ Len(h[a].inputs) = Len(h[b].inputs)
    /\ Len(h[a].outputs) = Len(h[b].outputs)
    /\ NameSet(h, h[a].inputs) = NameSet(h, h[b].inputs)
    /\ NameSet(h, h[a].outputs) = NameSet(h, h[b].outputs)

\* C2: a == b holds exactly when the stated equality does, whichever of the
\* two is the left operand.
EqualityIsStatedEquality ==
    \A a, b \in Objects :
        /\ PyEq(heap, a, b) <=> StatedEq(heap, a, b)
        /\ PyEq(heap, a, b) <=> PyEq(heap, b, a)

\* No neighbour of lst is listed twice, as the same object or as an equal one.
NoRepeat(h, lst) ==
    \A i, j \in 1..Len(lst) : i < j => lst[i] # lst[j] /\ ~PyEq(h, lst[i], lst[j])

\* The elements of lst that are not present (identical or equal) in base.
Absent(h, base, lst) == SelectSeq(lst, LAMBDA e : ~Contains(h, base, e))

\* lst holds exactly the neighbours of the two lists, none of them twice.
IsUnion(h, lst, l1, l2) ==
    /\ Range(lst) \subseteq Range(l1) \cup Range(l2)
    /\ \A e \in Range(l1) \cup Range(l2) : Contains(h, lst, e)
    /\ NoRepeat(h, lst)

SameNickname == {p \in Objects \X Objects : heap[p[1]].nickname = heap[p[2]].nickname}

\* C3: merge(A, B) leaves A's inputs followed by the inputs of B that A did
\* not hold, in B's order, which is the union of both lists with no neighbour
\* twice; the same for outputs.
MergeAppendsTheAbsent ==
    \A p \in SameNickname :
        LET a == p[1]
            b == p[2]
            h == merge(heap, a, b)
        IN  (/\ NoRepeat(heap, heap[a].inputs) /\ NoRepeat(heap, heap[b].inputs)
             /\ NoRepeat(heap, heap[a].outputs) /\ NoRepeat(heap, heap[b].outputs))
            => /\ h[a].inputs = heap[a].inputs \o Absent(heap, heap[a].inputs, heap[b].inputs)
               /\ h[a].outputs = heap[a].outputs \o Absent(heap, heap[a].outputs, heap[b].outputs)
               /\ IsUnion(h, h[a].inputs, heap[a].inputs, heap[b].inputs)
               /\ IsUnion(h, h[a].outputs, heap[a].outputs, heap[b].outputs)

\* C4: merging B into A a second time appends nothing, and the result is equal
\* to the result of the first merge.
MergeIdempotent ==
    \A p \in SameNickname :
        LET a  == p[1]
            b  == p[2]
            h1 == merge(heap, a, b)
            h2 == merge(h1, a, b)
        IN  /\ h2[a].inputs = h1[a].inputs
            /\ h2[a].outputs = h1[a].outputs
            /\ PyEq(h2, a, a)

\* s ends in the letter v followed by one or more digits.
EndsInVersionToken(s) ==
    \E i \in 1..Len(s) :
        /\ s[i] = "v"
        /\ i < Len(s)
        /\ \A j \in (i + 1)..Len(s) : s[j] \in Digits

\* C5: once line 36 has run, the build number was taken exactly when the value
\* ends in a version token, and the run goes on.
BuildNumberTaken ==
    buildNum # Pending =>
        /\ EndsInVersionToken(value) <=> buildNum.tag = "ok"
        /\ EndsInVersionToken(value) => status = "running"

\* The variant the documentation gives a document: ApiServer for a log-streams
\* or persistence field, StreamServer for a packed field without them.
StatedKind(doc) ==
    IF "logstreams" \in doc.keys \/ "persistence" \in doc.keys THEN "ApiElement"
    ELSE IF "packed" \in doc.keys THEN "StreamElement"
    ELSE "None"

\* C6: a step whose file matches constructs a node of the stated variant, and
\* no node when the document has no marker field.
DocumentClassified ==
    [][InLoop =>
        \A doc \in FileOf(data, Servers[si]) :
            IF StatedKind(doc) = "None"
            THEN currentServer' = NoneValue /\ heap' = heap
            ELSE /\ currentServer' = Object(Len(heap) + 1)
                 /\ Len(heap') > Len(heap)
                 /\ heap'[Len(heap) + 1].cls = StatedKind(doc)]_vars

\* The next server reference fails: no supplied path matches, or the matching
\* document is of unknown type.
NextFails ==
    /\ InLoop
    /\ \/ FileOf(data, Servers[si]) = {}
       \/ \E doc \in FileOf(data, Servers[si]) : ServerKind(doc) = "None"

\* C7: a failing server reference registers nothing and the run goes on to the
\* next reference.
FailedServerSkipped ==
    [][NextFails =>
        /\ nodes' = nodes
        /\ heap' = heap
        /\ status' = "running"
        /\ si' = si + 1]_vars

\* The colour the table gives input n of stream server s: that of the group
\* field which created n, black for an input that no group field created.
StatedColor(h, s, n) ==
    LET made == {k \in 1..Len(h[s].groups) : h[s].inputs[k] = n}
    IN  IF made = {} THEN "black"
        ELSE colorMap(h[s].groups[CHOOSE k \in made : TRUE])

\* C8: for every registered node and each of its visible inputs the classifier
\* returns the stated colour and never fails.
ClassifierReturnsStatedColor ==
    \A s \in Registered :
        \A n \in Range(getInputs(heap, s)) :
            /\ EdgeColor(heap, s, n) # "IndexError"
            /\ EdgeColor(heap, s, n) =
                  IF heap[s].cls = "StreamElement" THEN StatedColor(heap, s, n) ELSE "black"

\* The visible elements reached from n through invisible inputs only.
VisibleThroughInputs(h, n) ==
    LET via == InvisibleClosure(h, {n}) \cup {n}
    IN  {v \in 1..Len(h) : h[v].isVisible /\ \E m \in via : v \in Range(h[m].inputs)}

RECURSIVE InvisibleClosureOut(_, _)
InvisibleClosureOut(h, S) ==
    LET more == {m \in 1..Len(h) : ~h[m].isVisible /\ \E n \in S : m \in Range(h[n].outputs)}
    IN  IF more \subseteq S THEN S ELSE InvisibleClosureOut(h, S \cup more)

VisibleThroughOutputs(h, n) ==
    LET via == InvisibleClosureOut(h, {n}) \cup {n}
    IN  {v \in 1..Len(h) : h[v].isVisible /\ \E m \in via : v \in Range(h[m].outputs)}

\* C9: getInputs returns no invisible element, every visible direct input, and
\* for each invisible input that input's visible inputs: exactly the visible
\* elements reached through invisible inputs; getOutputs likewise.
CollapseCorrect ==
    collapsed.node # 0 =>
        LET n == collapsed.node
        IN  /\ \A v \in Range(collapsed.inputs) : heap[v].isVisible
            /\ \A d \in Range(heap[n].inputs) :
                  IF heap[d].isVisible THEN d \in Range(collapsed.inputs)
                  ELSE \A x \in VisibleThroughInputs(heap, d) : x \in Range(collapsed.inputs)
            /\ Range(collapsed.inputs) = VisibleThroughInputs(heap, n)
            /\ \A v \in Range(collapsed.outputs) : heap[v].isVisible
            /\ \A d \in Range(heap[n].outputs) :
                  IF heap[d].isVisible THEN d \in Range(collapsed.outputs)
                  ELSE \A x \in VisibleThroughOutputs(heap, d) : x \in Range(collapsed.outputs)
            /\ Range(collapsed.outputs) = VisibleThroughOutputs(heap, n)

\* A consumer was collapsed whose invisible input has two visible inputs, and
\* whose invisible output has a visible output.
CollapseWitness ==
    /\ collapsed.node # 0
    /\ \E d \in Range(heap[collapsed.node].inputs) :
          /\ ~heap[d].isVisible
          /\ Cardinality({x \in Range(heap[d].inputs) : heap[x].isVisible}) >= 2
          /\ {x \in Range(heap[d].inputs) : heap[x].isVisible} \subseteq Range(collapsed.inputs)
    /\ \E d \in Range(heap[collapsed.node].outputs) :
          ~heap[d].isVisible /\ collapsed.outputs # <<>>

\* C10: when the pass is over, every visible output B of a registered node A
\* is matched by a visible input of nickname A in the entry of B's nickname,
\* and by an edge of the graph once it is drawn.
EdgesFromInputsLoseNothing ==
    (gi > Len(confs) /\ status \in {"running", "done"}) =>
        \A a \in Registered :
            \A b \in Range(getOutputs(heap, a)) :
                /\ HasKey(nodes, heap[b].nickname)
                /\ \E i \in Range(getInputs(heap, Lookup(nodes, heap[b].nickname))) :
                      heap[i].nickname = heap[a].nickname
                /\ status = "done" =>
                      \E e \in edges : e[1] = Relabel(heap[a].nickname)
                                       /\ e[2] = Relabel(heap[b].nickname)

====
